---- MODULE Spec2Model ----
(***************************************************************************)
(* Model of src/main.py (celestia): the process-wide image cache with its  *)
(* refresh paths (startup, scheduled loop, /view, listing commands) and    *)
(* the paginated /servers view with its owner enrichment.                  *)
(*                                                                         *)
(* Scheduling: one asyncio event loop.  A coroutine gives up the loop only *)
(* at an await that really suspends.  requests.get (line 462) is a plain   *)
(* blocking call, so refresh_image_cache holds the loop from its first     *)
(* line to its last; the model still shows the call as two steps (request  *)
(* sent, response handled) so that "a refresh is in progress" is a state.  *)
(***************************************************************************)
EXTENDS Integers, FiniteSets, Sequences, TLC

None == "none"

(***************************************************************************)
(* Bounds of the model.                                                    *)
(***************************************************************************)
\* time.time() is read as an integer in 0..MaxClock
MaxClock == 2

\* bot.guilds holds 0..MaxGuilds guilds
MaxGuilds == 23

\* the guild whose owner is in no member cache is among the first MaxSlow
MaxSlow == 2

\* pages rendered by button presses per /servers message
MaxRenders == 2

\* button handlers in flight at once
MaxHandlers == 1

(***************************************************************************)
(* Data of the cache subsystem.                                            *)
(***************************************************************************)
\* lines 45-53
INACTIVE_CHARTS ==
    {"goes1315", "hobartmag", "launcestonmag", "hobartkindex",
     "launcestonkindex", "wing-kp-12-hour", "goes-magnetometer"}

\* The ids the upstream listing may hold and users may ask for: one
\* deny-listed chart and two active resources.
ResourceIds == {"goes1315", "yellowknife", "kp-chart"}

\* Entries of the upstream listing, {name, url, category} (line 465).  A url
\* is the sequence of its parts, so that a query string can be seen.  The
\* camera's entry comes in two revisions, so that a stale record differs
\* from a fresh one; the second carries a 'last_updated' key of its own,
\* which the listing is free to send, a url with a query string, and a
\* name that spells the place differently.
EntriesOf(id) ==
    CASE id = "goes1315" ->
            { [name |-> "GOES 13/15", category |-> "chart", url |-> <<"h/goes.png">>] }
      [] id = "yellowknife" ->
            { [name |-> "Yellowknife", category |-> "cam", url |-> <<"h/yk.jpg">>],
              [name |-> "YK Aurora Cam", category |-> "cam", url |-> <<"h/yk", "?", "v=2">>,
               last_updated |-> 0] }
      [] id = "kp-chart" ->
            { [name |-> "Kp index", category |-> "chart", url |-> <<"h/kp.png">>] }

\* response.json().get('images', {}) for every listing the upstream may send
Payloads ==
    UNION { {f \in [S -> UNION {EntriesOf(id) : id \in S}] :
                \A id \in S : f[id] \in EntriesOf(id)} : S \in SUBSET ResourceIds }

\* How one call of requests.get / raise_for_status / json() / the use of the
\* decoded value may end (lines 462-465).
FetchOutcomes == {"ok", "timeout", "network", "http", "decode", "malformed"}

\* The exception classes a failed fetch may raise.  timeout, network and an
\* HTTP error status raise requests.exceptions.RequestException subclasses.
\* A body that is no JSON raises requests' JSONDecodeError, a
\* RequestException only from requests 2.27 on and a plain ValueError
\* before.  A JSON body of the wrong shape (no object, or 'images' no
\* object, or an entry no object) raises AttributeError or TypeError at
\* lines 465-479, before the assignment to image_cache.
Raised(outcome) ==
    CASE outcome = "ok" -> {None}
      [] outcome \in {"timeout", "network", "http"} -> {"RequestException"}
      [] outcome = "decode" -> {"RequestException", "ValueError"}
      [] outcome = "malformed" -> {"AttributeError"}

\* line 483: except requests.exceptions.RequestException
Caught(exc) == exc = "RequestException"

VARIABLES
    clock,        \* time.time()
    upstream,     \* the listing the upstream API answers with right now
    image_cache,  \* lines 39-42: [last_updated, data]
    running,      \* calls of refresh_image_cache that sent their request
    boot,         \* on_ready: "init", "refreshing", "ready", "failed"
    sched,        \* update_task: "unstarted", "idle", "running", "stopped"
    last,         \* how the latest operation ended; None while one runs
    total_guilds, \* len(sorted_guilds) of the /servers invocation
    slow_guild,   \* the guild whose owner needs fetch_member (0: none)
    page,         \* PageView.page
    generation,   \* number of renders so far (the page's generation)
    shown,        \* the embed the user sees
    tasks,        \* handler coroutines of /servers in flight
    owner_cache,  \* line 305
    lookups,      \* fetch_member calls made so far, per guild
    last_click,   \* the latest button press and the page it found
    view_store    \* discord.py's registration of the PageView

cacheVars == <<clock, upstream, image_cache, running, boot, sched, last>>
pagerVars ==
    <<total_guilds, slow_guild, page, generation, shown, tasks, owner_cache, lookups,
      last_click, view_store>>
vars == <<cacheVars, pagerVars>>

(***************************************************************************)
(* refresh_image_cache, lines 458-484.                                     *)
(***************************************************************************)
CurrentTimestamp_Cached == image_cache.last_updated

\* line 466
CurrentTimestamp == clock

Stamped_BustsUrl(v, ts) ==
    [k \in DOMAIN v \cup {"last_updated"} |->
        IF k = "last_updated" THEN ts
        ELSE IF k = "url" THEN v[k] \o <<"?", "t", ts>> ELSE v[k]]

Stamped_UpstreamKeyWins(v, ts) ==
    [k \in DOMAIN v \cup {"last_updated"} |-> IF k \in DOMAIN v THEN v[k] ELSE ts]

\* lines 471-472 and 477: {**v, 'last_updated': current_timestamp}; the key
\* written last wins
Stamped(v, ts) ==
    [k \in DOMAIN v \cup {"last_updated"} |-> IF k = "last_updated" THEN ts ELSE v[k]]

StoresOne_NoDenyCheck(id, fresh) == id \in DOMAIN fresh

\* line 469
StoresOne(id, fresh) == id \in DOMAIN fresh /\ id \notin INACTIVE_CHARTS

KeptIds_NoFilter(fresh) == DOMAIN fresh

\* line 479
KeptIds(fresh) == {k \in DOMAIN fresh : k \notin INACTIVE_CHARTS}

RefreshOne_StampsCache(cache, id, fresh, ts) ==
    IF StoresOne(id, fresh)
    THEN [last_updated |-> ts,
          data |-> [k \in DOMAIN cache.data \cup {id} |->
                      IF k = id THEN Stamped(fresh[id], ts) ELSE cache.data[k]]]
    ELSE cache

\* lines 468-473
RefreshOne(cache, id, fresh, ts) ==
    IF StoresOne(id, fresh)
    THEN [cache EXCEPT !.data =
            [k \in DOMAIN cache.data \cup {id} |->
                IF k = id THEN Stamped(fresh[id], ts) ELSE cache.data[k]]]
    ELSE cache

RefreshAll_RecordsKeepOldStamp(fresh, ts) ==
    [last_updated |-> ts,
     data |-> [k \in KeptIds(fresh) |-> Stamped(fresh[k], image_cache.last_updated)]]

RefreshAll_Merges(fresh, ts) ==
    [last_updated |-> ts,
     data |-> [k \in DOMAIN image_cache.data \cup KeptIds(fresh) |->
                 IF k \in KeptIds(fresh) THEN Stamped(fresh[k], ts)
                 ELSE image_cache.data[k]]]

\* lines 474-481
RefreshAll(fresh, ts) ==
    [last_updated |-> ts,
     data |-> [k \in KeptIds(fresh) |-> Stamped(fresh[k], ts)]]

AfterFailure_Cleared(cache) == [cache EXCEPT !.data = << >>]

\* lines 483-484 (and an exception that escapes): nothing was assigned
AfterFailure(cache) == cache

\* The cache after refresh_image_cache(specific) whose fetch ended `outcome`.
Refreshed(cache, specific, outcome, fresh, ts) ==
    IF outcome # "ok" THEN AfterFailure(cache)
    ELSE IF specific # None THEN RefreshOne(cache, specific, fresh, ts)
    ELSE RefreshAll(fresh, ts)

FetchSuspends_Awaited == TRUE

\* line 462: requests.get is called without await; the event loop runs no
\* other coroutine until refresh_image_cache returns.
FetchSuspends == FALSE

\* Whether the event loop can run a handler now.
LoopFree == FetchSuspends \/ running = {}

Call(caller, specific) == [caller |-> caller, specific |-> specific]

\* What an operation left behind: the exception refresh_image_cache raised
\* to its caller or caught (None: the fetch succeeded), the kind of message
\* the command sent, and for /view the embed and the entry of the listing
\* this very call fetched (a set: empty when it fetched none).  since is
\* time.time() when the operation called refresh_image_cache (0: it did not),
\* repeat tells that the call found the cache as a full refresh of the same
\* listing leaves it, dropped holds the keys the call removed.
NoLast ==
    [op |-> None, arg |-> None, error |-> None, kind |-> None, ids |-> {},
     title |-> None, image_url |-> << >>, fresh |-> {}, fetches |-> 0, since |-> 0,
     repeat |-> FALSE, dropped |-> {}]

\* The cache is what a successful full refresh of the listing `fresh` left.
FullyRefreshedFrom(fresh) == \E t0 \in 0..MaxClock : image_cache = RefreshAll(fresh, t0)

Ended(r, exc) ==
    [NoLast EXCEPT !.op = r.caller, !.arg = r.specific, !.error = exc, !.fetches = 1,
                   !.since = last.since,
                   !.repeat = r.specific = None /\ exc = None /\ FullyRefreshedFrom(upstream),
                   !.dropped = DOMAIN image_cache.data \ DOMAIN image_cache'.data]

\* lines 461-462: the request is sent
Begin(caller, specific) ==
    /\ LoopFree
    /\ running' = running \cup {Call(caller, specific)}
    /\ last' = [NoLast EXCEPT !.since = clock]

\* The call r ends: the cache is as the code leaves it, and exc is what the
\* fetch raised (None: nothing).
Finish(r, outcome, exc) ==
    /\ r \in running
    /\ running' = running \ {r}
    /\ image_cache' = Refreshed(image_cache, r.specific, outcome, upstream, CurrentTimestamp)

Escapes(exc) == exc # None /\ ~Caught(exc)

(***************************************************************************)
(* The environment of the cache: the clock and the upstream API.           *)
(***************************************************************************)
Tick ==
    /\ clock < MaxClock
    /\ clock' = clock + 1
    /\ UNCHANGED <<upstream, image_cache, running, boot, sched, last>>
    /\ UNCHANGED pagerVars

UpstreamChange ==
    /\ \E p \in Payloads : p # upstream /\ upstream' = p
    /\ UNCHANGED <<clock, image_cache, running, boot, sched, last>>
    /\ UNCHANGED pagerVars

(***************************************************************************)
(* on_ready, lines 66-71, and update_task, lines 453-456.                  *)
(***************************************************************************)
\* line 70, up to the request of refresh_image_cache
OnReady ==
    /\ boot = "init"
    /\ Begin("on_ready", None)
    /\ boot' = "refreshing"
    /\ UNCHANGED <<clock, upstream, image_cache, sched>>
    /\ UNCHANGED pagerVars

\* lines 70-71: update_task.start() runs only when the refresh returned
OnReadyRefreshed ==
    /\ boot = "refreshing"
    /\ \E outcome \in FetchOutcomes : \E exc \in Raised(outcome) :
        /\ Finish(Call("on_ready", None), outcome, exc)
        /\ boot' = IF Escapes(exc) THEN "failed" ELSE "ready"
        /\ sched' = IF Escapes(exc) THEN sched ELSE "idle"
        /\ last' = Ended(Call("on_ready", None), exc)
    /\ UNCHANGED <<clock, upstream>>
    /\ UNCHANGED pagerVars

\* line 453: the loop fires an iteration; it never runs two at once
UpdateTask ==
    /\ sched = "idle"
    /\ Begin("update_task", None)
    /\ sched' = "running"
    /\ UNCHANGED <<clock, upstream, image_cache, boot>>
    /\ UNCHANGED pagerVars

\* line 456 returns or raises.  discord.ext.tasks ends a loop whose body
\* raises anything but its own reconnect errors: no later iteration runs.
UpdateTaskRefreshed ==
    /\ sched = "running"
    /\ \E outcome \in FetchOutcomes : \E exc \in Raised(outcome) :
        /\ Finish(Call("update_task", None), outcome, exc)
        /\ sched' = IF Escapes(exc) THEN "stopped" ELSE "idle"
        /\ last' = Ended(Call("update_task", None), exc)
    /\ UNCHANGED <<clock, upstream, boot>>
    /\ UNCHANGED pagerVars

(***************************************************************************)
(* view_command, lines 148-174.                                            *)
(***************************************************************************)
\* line 167: f"{resource_data['url']}?t={int(time.time())}"
ImageUrl(url, now) == url \o <<"?", "t", now>>

\* lines 155-157
ViewInactive(id) ==
    /\ LoopFree
    /\ id \in INACTIVE_CHARTS
    /\ last' = [NoLast EXCEPT !.op = "view", !.arg = id, !.kind = "inactive"]
    /\ UNCHANGED <<clock, upstream, image_cache, running, boot, sched>>
    /\ UNCHANGED pagerVars

\* line 159, up to the request of refresh_image_cache
View(id) ==
    /\ id \notin INACTIVE_CHARTS
    /\ Begin("view", id)
    /\ UNCHANGED <<clock, upstream, image_cache, boot, sched>>
    /\ UNCHANGED pagerVars

\* lines 159-174
ViewRefreshed(id) ==
    /\ \E outcome \in FetchOutcomes : \E exc \in Raised(outcome) :
        /\ Finish(Call("view", id), outcome, exc)
        /\ LET data == image_cache'.data
               base == [Ended(Call("view", id), exc) EXCEPT
                           !.fresh = IF outcome = "ok" /\ id \in DOMAIN upstream
                                     THEN {upstream[id]} ELSE {}]
           IN  last' =
                 IF Escapes(exc) THEN [base EXCEPT !.kind = "error"]
                 ELSE IF id \notin DOMAIN data THEN [base EXCEPT !.kind = "not_found"]
                 ELSE [base EXCEPT !.kind = "embed",
                                   !.title = data[id].name,
                                   !.image_url = ImageUrl(data[id].url, clock)]
    /\ UNCHANGED <<clock, upstream, boot, sched>>
    /\ UNCHANGED pagerVars

\* refresh_image_cache(specific_image=id) taken as an operation of its own,
\* the single-resource refresh; lines 458-462.
RefreshOneCall(id) ==
    /\ Begin("refresh_one", id)
    /\ UNCHANGED <<clock, upstream, image_cache, boot, sched>>
    /\ UNCHANGED pagerVars

\* lines 463-484
RefreshOneReturn(id) ==
    /\ \E outcome \in FetchOutcomes : \E exc \in Raised(outcome) :
        /\ Finish(Call("refresh_one", id), outcome, exc)
        /\ last' = Ended(Call("refresh_one", id), exc)
    /\ UNCHANGED <<clock, upstream, boot, sched>>
    /\ UNCHANGED pagerVars

(***************************************************************************)
(* cameras_command, charts_command, satellites_command, lines 176-250.     *)
(***************************************************************************)
ListCommands == {"cameras", "charts", "satellites"}

\* line 185: any(loc in data['name'].lower() for loc in ['yellowknife', 'rothney']);
\* of the names in EntriesOf only "Yellowknife" holds one of the two words
HasCameraLocation(name) == name \in {"Yellowknife", "Rothney"}

\* lines 182-186, 208-211, 233-236
Listed(cmd, data) ==
    CASE cmd = "cameras" ->
            {k \in DOMAIN data : data[k].category = "cam" /\ HasCameraLocation(data[k].name)}
      [] cmd = "charts" ->
            {k \in DOMAIN data : data[k].category = "chart" /\ k \notin INACTIVE_CHARTS}
      [] cmd = "satellites" ->
            {k \in DOMAIN data : data[k].category = "satellite"}

\* lines 180, 206, 231, up to the request of refresh_image_cache
List(cmd) ==
    /\ Begin(cmd, None)
    /\ UNCHANGED <<clock, upstream, image_cache, boot, sched>>
    /\ UNCHANGED pagerVars

\* lines 180-200, 206-225, 231-250
ListRefreshed(cmd) ==
    /\ \E outcome \in FetchOutcomes : \E exc \in Raised(outcome) :
        /\ Finish(Call(cmd, None), outcome, exc)
        /\ LET ids == Listed(cmd, image_cache'.data)
               base == Ended(Call(cmd, None), exc)
           IN  last' =
                 IF Escapes(exc) THEN [base EXCEPT !.kind = "error"]
                 ELSE IF ids = {} THEN [base EXCEPT !.kind = "empty"]
                 ELSE [base EXCEPT !.kind = "list", !.ids = ids]
    /\ UNCHANGED <<clock, upstream, boot, sched>>
    /\ UNCHANGED pagerVars

\* lines 39-42
EmptyCache == [last_updated |-> 0, data |-> << >>]

(***************************************************************************)
(* servers_command, lines 272-451: the paginated listing.                  *)
(*                                                                         *)
(* sorted_guilds[i] is guild i+1.  Every guild but slow_guild has its      *)
(* owner in a member cache (lines 314-322 return without suspending);      *)
(* slow_guild's owner takes fetch_member (line 325), which suspends and    *)
(* may fail.  Task 0 is servers_command itself, tasks 1..MaxHandlers are   *)
(* the button callbacks discord.py runs, each as a task of its own.        *)
(***************************************************************************)
\* line 300
guilds_per_page == 10

\* line 302
total_pages == (total_guilds + guilds_per_page - 1) \div guilds_per_page

Min(a, b) == IF a <= b THEN a ELSE b

\* lines 344-345
PageStart(p) == p * guilds_per_page
PageEnd(p) == Min(PageStart(p) + guilds_per_page, total_guilds)

Handlers == 0..MaxHandlers

\* An embed: the page it lists, the render it belongs to, how many of its
\* fields have "Owner: Loading..." replaced, and the guilds whose owner is
\* shown by bare id.
NoEmbed == [page |-> -1, gen |-> -1, owners |-> 0, unknown |-> {}]

IdleTask ==
    [pc |-> "idle", page |-> 0, gen |-> 0, idx |-> 0, unknown |-> {}]

NoClick == [button |-> None, from |-> 0]

\* The embed a task holds: make_embed (lines 337-356) set every field to
\* "Owner: Loading...", update_owners has rewritten fields start..idx-1
\* (lines 385-392).
EmbedOf(t) ==
    [page |-> t.page, gen |-> t.gen, owners |-> t.idx - PageStart(t.page),
     unknown |-> t.unknown]

\* lines 309-322: get_owner returns without suspending
Resolved(g, cache) == g \in cache \/ g # slow_guild

\* lines 358-394 from position idx on, up to the first get_owner that
\* suspends: the task then waits in fetch_member at that position, or has
\* left the loop and waits in message.edit (lines 403, 421, 433, 443, 451).
\* Owners found on the way are stored (lines 315, 321).
UpdateOwners(t, idx, cache) ==
    LET stop == IF \E i \in idx..(PageEnd(t.page) - 1) : ~Resolved(i + 1, cache)
                THEN slow_guild - 1
                ELSE PageEnd(t.page)
    IN  [task |-> [t EXCEPT !.pc = IF stop < PageEnd(t.page) THEN "fetching" ELSE "patch",
                            !.idx = stop],
         cache |-> cache \cup {i + 1 : i \in idx..(stop - 1)}]

Bump(f, g) ==
    [k \in DOMAIN f \cup {g} |-> IF k = g THEN (IF g \in DOMAIN f THEN f[g] ELSE 0) + 1
                                ELSE f[k]]

\* The state after update_owners ran from idx: a task that stops in
\* fetch_member has made one more lookup.
Enrich(id, t, idx) ==
    LET r == UpdateOwners(t, idx, owner_cache)
    IN  /\ tasks' = [tasks EXCEPT ![id] = r.task]
        /\ owner_cache' = r.cache
        /\ lookups' = IF r.task.pc = "fetching" THEN Bump(lookups, r.task.idx + 1)
                      ELSE lookups

\* line 398 returns: the first page is on screen, placeholders in place.
\* With one page update_owners follows at once (lines 401-402); otherwise
\* the buttons are sent next (line 446).
Sent ==
    /\ tasks[0].pc = "send"
    /\ shown' = EmbedOf(tasks[0])
    /\ IF total_pages = 1
       THEN Enrich(0, tasks[0], PageStart(0))
       ELSE /\ tasks' = [tasks EXCEPT ![0].pc = "attach"]
            /\ UNCHANGED <<owner_cache, lookups>>
    /\ UNCHANGED <<total_guilds, slow_guild, page, generation, last_click>>
    /\ UNCHANGED <<view_store, cacheVars>>

\* lines 446-450: the buttons are on screen; update_owners starts
Attached ==
    /\ tasks[0].pc = "attach"
    /\ Enrich(0, tasks[0], PageStart(0))
    /\ UNCHANGED <<total_guilds, slow_guild, page, generation, shown, last_click>>
    /\ UNCHANGED <<view_store, cacheVars>>

\* lines 413, 425, 437
Buttons == {"previous", "next", "refresh"}

\* The buttons exist from line 446 on (never with exactly one page, line 404).
ButtonsShown == total_pages # 1 /\ tasks[0].pc \notin {"send", "attach"}

FreeHandlers == {h \in Handlers \ {0} : tasks[h].pc = "idle"}

\* The callback of a press runs as the lowest free task.
NewHandler == CHOOSE h \in FreeHandlers : \A k \in FreeHandlers : h <= k

\* line 409, timeout=120: discord.py dispatches a press to the view's
\* callbacks while the view is listening.  After 120 s without a press it
\* calls on_timeout (not overridden: nothing is sent, the buttons stay on
\* screen) and drops the view; a press that arrives later reaches no
\* callback.  undelivered is the latest such press, answer what the bot
\* sent in reply to it.
Listening == [listening |-> TRUE, undelivered |-> None, answer |-> None]

Pressed(button) ==
    /\ ButtonsShown
    /\ view_store.listening
    /\ last_click' = [button |-> button, from |-> page]

\* line 409: 120 s have passed since the view was sent or last pressed
Timeout ==
    /\ ButtonsShown
    /\ view_store.listening
    /\ view_store' = [Listening EXCEPT !.listening = FALSE]
    /\ UNCHANGED <<total_guilds, slow_guild, page, generation, shown, tasks, owner_cache,
                   lookups, last_click>>
    /\ UNCHANGED cacheVars

\* A press of a button of the dropped view: no code of PageView runs
PressedLate(button) ==
    /\ ButtonsShown
    /\ ~view_store.listening
    /\ view_store' = [view_store EXCEPT !.undelivered = button]
    /\ UNCHANGED <<total_guilds, slow_guild, page, generation, shown, tasks, owner_cache,
                   lookups, last_click>>
    /\ UNCHANGED cacheVars

\* lines 417-418, 429-430, 439-440: make_embed, then edit_message is awaited
Render(p) ==
    /\ FreeHandlers # {}
    /\ generation < MaxRenders
    /\ generation' = generation + 1
    /\ tasks' = [tasks EXCEPT ![NewHandler] =
                    [pc |-> "render", page |-> p, gen |-> generation + 1,
                     idx |-> PageStart(p), unknown |-> {}]]

CanGoNext_OffByOne(p, pages) == p < pages

\* line 427
CanGoNext(p, pages) == p < pages - 1

\* line 415
CanGoPrevious(p) == p > 0

\* lines 425-435
NextPressed ==
    /\ Pressed("next")
    /\ IF CanGoNext(page, total_pages)
       THEN /\ page' = page + 1
            /\ Render(page + 1)
       ELSE UNCHANGED <<page, generation, tasks>>
    /\ UNCHANGED <<total_guilds, slow_guild, shown, owner_cache, lookups>>
    /\ UNCHANGED <<view_store, cacheVars>>

\* lines 413-423
PreviousPressed ==
    /\ Pressed("previous")
    /\ IF CanGoPrevious(page)
       THEN /\ page' = page - 1
            /\ Render(page - 1)
       ELSE UNCHANGED <<page, generation, tasks>>
    /\ UNCHANGED <<total_guilds, slow_guild, shown, owner_cache, lookups>>
    /\ UNCHANGED <<view_store, cacheVars>>

\* lines 437-440
RefreshPressed ==
    /\ Pressed("refresh")
    /\ Render(page)
    /\ UNCHANGED <<total_guilds, slow_guild, page, shown, owner_cache, lookups>>
    /\ UNCHANGED <<view_store, cacheVars>>

\* lines 418, 430, 440 return: the page is on screen with placeholders;
\* original_response is awaited (lines 419, 431, 441)
Rendered(h) ==
    /\ h # 0
    /\ tasks[h].pc = "render"
    /\ shown' = EmbedOf(tasks[h])
    /\ tasks' = [tasks EXCEPT ![h].pc = "original_response"]
    /\ UNCHANGED <<total_guilds, slow_guild, page, generation, owner_cache, lookups, last_click>>
    /\ UNCHANGED <<view_store, cacheVars>>

\* lines 419-420, 431-432, 441-442: original_response returns and
\* update_owners starts
ResponseFetched(h) ==
    /\ h # 0
    /\ tasks[h].pc = "original_response"
    /\ Enrich(h, tasks[h], tasks[h].idx)
    /\ UNCHANGED <<total_guilds, slow_guild, page, generation, shown, last_click>>
    /\ UNCHANGED <<view_store, cacheVars>>

OwnerFetched_Raises(h, ok) ==
    /\ tasks[h].pc = "fetching"
    /\ LET t == tasks[h]
           r == UpdateOwners(t, t.idx + 1, owner_cache \cup {t.idx + 1})
       IN  /\ tasks' = [tasks EXCEPT ![h] =
                          IF ok THEN r.task
                          ELSE IF h = 0 THEN [t EXCEPT !.pc = "done"] ELSE IdleTask]
           /\ owner_cache' = IF ok THEN r.cache ELSE owner_cache
    /\ UNCHANGED <<total_guilds, slow_guild, page, generation, shown, lookups, last_click>>
    /\ UNCHANGED <<view_store, cacheVars>>

\* lines 325-335: fetch_member returns (the owner is stored, line 326) or
\* raises (a stand-in with the bare id is returned, nothing is stored);
\* the field is rewritten (lines 385-392) and the loop goes on.
OwnerFetched(h, ok) ==
    /\ tasks[h].pc = "fetching"
    /\ LET t == tasks[h]
           g == t.idx + 1
           r == UpdateOwners([t EXCEPT !.unknown = IF ok THEN @ ELSE @ \cup {g}],
                             t.idx + 1,
                             IF ok THEN owner_cache \cup {g} ELSE owner_cache)
       IN  /\ tasks' = [tasks EXCEPT ![h] = r.task]
           /\ owner_cache' = r.cache
    /\ UNCHANGED <<total_guilds, slow_guild, page, generation, shown, lookups, last_click>>
    /\ UNCHANGED <<view_store, cacheVars>>

\* lines 403, 421, 433, 443, 451: message.edit(embed=updated_embed) puts
\* the task's embed on screen, and the task ends
Patched(h) ==
    /\ tasks[h].pc = "patch"
    /\ shown' = EmbedOf(tasks[h])
    /\ tasks' = [tasks EXCEPT ![h] = IF h = 0 THEN [@ EXCEPT !.pc = "done"] ELSE IdleTask]
    /\ UNCHANGED <<total_guilds, slow_guild, page, generation, owner_cache, lookups, last_click>>
    /\ UNCHANGED <<view_store, cacheVars>>

\* servers_command has built the first embed and awaits followup.send
\* (lines 294-398); PageView.page is 0 (line 410), owner_cache empty (305).
PagerInit ==
    /\ total_guilds \in 0..MaxGuilds
    /\ slow_guild \in 0..Min(total_guilds, MaxSlow)
    /\ page = 0
    /\ generation = 0
    /\ shown = NoEmbed
    /\ tasks = [t \in Handlers |-> IF t = 0 THEN [IdleTask EXCEPT !.pc = "send"] ELSE IdleTask]
    /\ owner_cache = {}
    /\ lookups = << >>
    /\ last_click = NoClick
    /\ view_store = Listening
    /\ clock = 1
    /\ upstream = << >>
    /\ image_cache = EmptyCache
    /\ running = {}
    /\ boot = "init"
    /\ sched = "unstarted"
    /\ last = NoLast

PagerNext ==
    \/ Sent
    \/ Attached
    \/ NextPressed
    \/ PreviousPressed
    \/ RefreshPressed
    \/ \E h \in Handlers : Rendered(h)
    \/ \E h \in Handlers : ResponseFetched(h)
    \/ \E h \in Handlers : \E ok \in BOOLEAN : OwnerFetched(h, ok)
    \/ \E h \in Handlers : Patched(h)

\* The /servers message while its view is listening: every press comes
\* within 120 s of the one before.
PagerSpec == PagerInit /\ [][PagerNext]_vars

\* The /servers message over its whole life, the view's timeout included.
PagerLifeNext ==
    \/ PagerNext
    \/ Timeout
    \/ \E button \in Buttons : PressedLate(button)

PagerLifeSpec == PagerInit /\ [][PagerLifeNext]_vars

\* The event loop runs every coroutine that is ready, and the awaited calls
\* to Discord (send, edit, original_response, fetch_member) return or raise
\* in the end: no step of a task in flight is put off for ever.  Presses
\* and the timeout are the user's and the clock's: they may never come.
TasksProgress ==
    /\ WF_vars(Sent)
    /\ WF_vars(Attached)
    /\ \A h \in Handlers :
          /\ WF_vars(Rendered(h))
          /\ WF_vars(ResponseFetched(h))
          /\ WF_vars(\E ok \in BOOLEAN : OwnerFetched(h, ok))
          /\ WF_vars(Patched(h))

PagerFairSpec == PagerInit /\ [][PagerLifeNext]_vars /\ TasksProgress


(***************************************************************************)
(* The cache subsystem as a whole.                                         *)
(***************************************************************************)
PagerIdle ==
    /\ total_guilds = 0
    /\ slow_guild = 0
    /\ page = 0
    /\ generation = 0
    /\ shown = NoEmbed
    /\ tasks = [t \in Handlers |-> IdleTask]
    /\ owner_cache = {}
    /\ lookups = << >>
    /\ last_click = NoClick
    /\ view_store = Listening

CacheInit ==
    /\ clock = 1
    /\ upstream \in Payloads
    /\ image_cache = EmptyCache
    /\ running = {}
    /\ boot = "init"
    /\ sched = "unstarted"
    /\ last = NoLast
    /\ PagerIdle

CacheNext ==
    \/ Tick
    \/ UpstreamChange
    \/ OnReady
    \/ OnReadyRefreshed
    \/ UpdateTask
    \/ UpdateTaskRefreshed
    \/ \E id \in ResourceIds : ViewInactive(id)
    \/ \E id \in ResourceIds : View(id)
    \/ \E id \in ResourceIds : ViewRefreshed(id)
    \/ \E id \in ResourceIds : RefreshOneCall(id)
    \/ \E id \in ResourceIds : RefreshOneReturn(id)
    \/ \E cmd \in ListCommands : List(cmd)
    \/ \E cmd \in ListCommands : ListRefreshed(cmd)

CacheSpec == CacheInit /\ [][CacheNext]_vars

(***************************************************************************)
(* Properties of the cache subsystem.                                      *)
(***************************************************************************)
Data == image_cache.data

RefreshAllCallers == ListCommands \cup {"on_ready", "update_task"}

\* A step in which some call of refresh_image_cache returns or raises.
RefreshEnds == running' # running /\ running' \subseteq running

\* C1: no deny-listed id is ever a key of the cached records, so no lookup
\* and no listing command can yield one, whatever the upstream listing held
\* and however the refreshes ended.
C1_DenyListNeverCached ==
    \A y \in INACTIVE_CHARTS :
        /\ y \notin DOMAIN Data
        /\ \A cmd \in ListCommands : y \notin Listed(cmd, Data)
        /\ y \notin last.ids

\* C1 witness: a full refresh has just succeeded against a listing that
\* holds a deny-listed chart, and the cache holds other records.
C1_Witness ==
    /\ last.op = "charts" /\ last.kind = "list"
    /\ image_cache.last_updated = clock
    /\ "goes1315" \in DOMAIN upstream
    /\ running = {}

\* C2: a refresh whose fetch failed, full or single, leaves image_cache
\* (the records and last_updated) exactly as it was.
C2_FailedFetchKeepsCache ==
    [][(RefreshEnds /\ last'.error # None) => image_cache' = image_cache]_vars

\* C2 witness: a fetch failed on undecodable JSON while the cache held
\* records, and they are still there.
C2_Witness ==
    /\ last.error = "ValueError"
    /\ last.op \in RefreshAllCallers
    /\ DOMAIN Data = {"yellowknife", "kp-chart"}

\* C3: a record that /view displays is the entry of the listing fetched by
\* that very call.
C3_ViewShowsFetchedEntry ==
    (last.op = "view" /\ last.kind = "embed") =>
        \E v \in last.fresh :
            /\ last.title = v.name
            /\ \E now \in 0..MaxClock : last.image_url = ImageUrl(v.url, now)

\* C4: a single-resource request for a deny-listed id shows no record,
\* leaves the id out of the cache, fetches the listing at most once, and
\* changes nothing in the cache.
C4_DenyListedRequest ==
    /\ [](last.arg \in INACTIVE_CHARTS =>
            /\ last.op \in {"view", "refresh_one"}
            /\ last.kind \in {"inactive", None}
            /\ last.arg \notin DOMAIN Data
            /\ last.fetches <= 1)
    /\ [][(last' # last /\ last'.arg \in INACTIVE_CHARTS) => image_cache' = image_cache]_vars

\* C4 witness: refresh_image_cache was called for a deny-listed chart that
\* the fetched listing holds, and the fetch succeeded.
C4_Witness ==
    /\ last.op = "refresh_one" /\ last.arg = "goes1315" /\ last.error = None
    /\ "goes1315" \in DOMAIN upstream
    /\ DOMAIN Data # {}

\* C6: across every step, a record that stays in the cache never gets an
\* older last_updated.
C6_RecordStampNeverDecreases ==
    [][\A id \in DOMAIN Data \cap DOMAIN image_cache'.data :
            image_cache'.data[id].last_updated >= Data[id].last_updated]_vars

\* C6 witness: a single-resource refresh restamped a record that a full
\* refresh had stored earlier.
C6_Witness ==
    /\ last.op \in {"view", "refresh_one"} /\ last.arg = "yellowknife" /\ last.error = None
    /\ image_cache.last_updated >= 1
    /\ "yellowknife" \in DOMAIN Data
    /\ Data["yellowknife"].last_updated > image_cache.last_updated

\* C7: after a scheduled refresh failed, whatever the failure, update_task
\* is idle again, ready for its next iteration.
C7_SchedulerSurvivesFailure ==
    (last.op = "update_task" /\ last.error # None) => sched = "idle"

\* C11: when a full refresh ends successfully, every id of the fetched
\* listing that is not deny-listed is a key of the cache with a record
\* stamped no earlier than the time the refresh was called, and the cache's
\* own last_updated is no earlier than that time either.
C11_FullRefreshStampsAll ==
    [][(RefreshEnds /\ last'.op \in RefreshAllCallers /\ last'.error = None) =>
          /\ image_cache'.last_updated >= last'.since
          /\ last'.since >= 1
          /\ \A k \in DOMAIN upstream \ INACTIVE_CHARTS :
                /\ k \in DOMAIN image_cache'.data
                /\ image_cache'.data[k].last_updated >= last'.since]_vars

\* C11 witness: a scheduled full refresh called at time 1 has ended
\* successfully at time 2; the listing holds a deny-listed chart and a
\* camera entry that carries a last_updated of its own.
C11_Witness ==
    /\ last.op = "update_task" /\ last.error = None
    /\ last.since = 1 /\ clock = 2
    /\ image_cache.last_updated = 2
    /\ "goes1315" \in DOMAIN upstream
    /\ "yellowknife" \in DOMAIN Data
    /\ "yellowknife" \in DOMAIN upstream
    /\ "last_updated" \in DOMAIN upstream["yellowknife"]

\* C12: when a single-resource refresh for id ends successfully, the cache's
\* own last_updated, the set of keys other than id and every record under
\* another key are what they were before the call ended.
C12_SingleRefreshTouchesOneRecord ==
    [][(RefreshEnds /\ last'.op \in {"view", "refresh_one"} /\ last'.error = None) =>
          /\ image_cache'.last_updated = image_cache.last_updated
          /\ DOMAIN image_cache'.data \ {last'.arg} = DOMAIN Data \ {last'.arg}
          /\ \A k \in DOMAIN Data \ {last'.arg} : image_cache'.data[k] = Data[k]]_vars

\* C12 witness: /view has just refreshed the camera's record at time 2,
\* next to the chart's record that a full refresh stored at time 1.
C12_Witness ==
    /\ last.op = "view" /\ last.arg = "yellowknife" /\ last.error = None
    /\ DOMAIN Data = {"yellowknife", "kp-chart"}
    /\ Data["yellowknife"].last_updated = 2
    /\ Data["kp-chart"].last_updated = 1
    /\ image_cache.last_updated = 1

\* A record without its stamp, and the cache's records without theirs.
Content(rec) == [f \in DOMAIN rec \ {"last_updated"} |-> rec[f]]
Contents(cache) == [k \in DOMAIN cache.data |-> Content(cache.data[k])]

\* C15: a successful full refresh that finds the cache as a successful full
\* refresh of the same listing left it keeps the key set and every record's
\* fields; only the records' last_updated and the cache's last_updated
\* change, and they do not go back.
C15_FullRefreshIdempotent ==
    [][(RefreshEnds /\ last'.repeat) =>
          /\ last'.op \in RefreshAllCallers /\ last'.error = None
          /\ Contents(image_cache') = Contents(image_cache)
          /\ image_cache'.last_updated >= image_cache.last_updated
          /\ \A k \in DOMAIN Data :
                image_cache'.data[k].last_updated >= Data[k].last_updated]_vars

\* C15 witness: a scheduled full refresh at time 2 found the cache as a
\* full refresh of the same two-record listing had left it at time 1.
C15_Witness ==
    /\ last.op = "update_task" /\ last.repeat
    /\ last.since = 2
    /\ image_cache.last_updated = 2
    /\ DOMAIN Data = {"yellowknife", "kp-chart"}
    /\ Data["yellowknife"].url = <<"h/yk", "?", "v=2">>

\* C18: when a full refresh ends successfully, the keys of the cache are
\* exactly the ids of the fetched listing that are not deny-listed (a key
\* the listing no longer holds is gone, whichever refresh had stored it),
\* and every record has the fields of its entry in the listing.
C18_FullRefreshReplaces ==
    [][(RefreshEnds /\ last'.op \in RefreshAllCallers /\ last'.error = None) =>
          /\ DOMAIN image_cache'.data = DOMAIN upstream \ INACTIVE_CHARTS
          /\ \A k \in DOMAIN image_cache'.data :
                Content(image_cache'.data[k]) = Content(upstream[k])
          /\ last'.dropped = DOMAIN Data \ DOMAIN upstream]_vars

\* C18 witness: a full refresh has just removed the camera's record, which
\* a single-resource refresh had stored after the last full refresh, and
\* kept the chart's.
C18_Witness ==
    /\ last.op \in RefreshAllCallers /\ last.error = None
    /\ last.dropped = {"yellowknife"}
    /\ DOMAIN Data = {"kp-chart"}
    /\ DOMAIN upstream = {"goes1315", "kp-chart"}

\* The category value each listing command asks for (lines 184, 210, 235).
CategoryOf(cmd) ==
    CASE cmd = "cameras" -> "cam"
      [] cmd = "charts" -> "chart"
      [] cmd = "satellites" -> "satellite"

\* C16: a listing command that answered lists exactly the cached records of
\* its category whose id is not deny-listed, none left out and none of
\* another category (it says "none found" only when there is none).
C16_ListIsCategory ==
    (last.op \in ListCommands /\ last.kind \in {"list", "empty"}) =>
        last.ids = {k \in DOMAIN Data \ INACTIVE_CHARTS :
                        Data[k].category = CategoryOf(last.op)}

HasQuery(url) == \E i \in DOMAIN url : url[i] = "?"

\* The places of "?" in a delivered url, whose last part is the time.
QueryMarks(url) == {i \in 1..(Len(url) - 1) : url[i] = "?"}

\* C17: the url of the image /view shows is the record's url followed by
\* t=<time>, joined by "?" when the record's url has no query string and by
\* "&" when it has one, so that it holds exactly one "?".
C17_CacheBusterJoin ==
    (last.op = "view" /\ last.kind = "embed") =>
        /\ \E now \in last.since..clock :
              last.image_url =
                  Data[last.arg].url \o
                      <<IF HasQuery(Data[last.arg].url) THEN "&" ELSE "?", "t", now>>
        /\ Cardinality(QueryMarks(last.image_url)) = 1

\* C21: in every reachable state each cached record's last_updated is at
\* least the cache's own last_updated, the time of the last full refresh
\* (the clock never goes back).
C21_RecordNotOlderThanCache ==
    \A k \in DOMAIN Data : Data[k].last_updated >= image_cache.last_updated

\* C21 witness: a single-resource refresh at time 2 has restamped the
\* chart's record; the camera's record and the cache still carry time 1 of
\* the full refresh that stored both.
C21_Witness ==
    /\ last.op = "refresh_one" /\ last.arg = "kp-chart" /\ last.error = None
    /\ image_cache.last_updated = 1
    /\ DOMAIN Data = {"yellowknife", "kp-chart"}
    /\ Data["kp-chart"].last_updated = 2
    /\ Data["yellowknife"].last_updated = 1

\* C8: at most one call of refresh_image_cache is in progress at any time.
C8_OneRefreshAtATime == Cardinality(running) <= 1

\* C8 witness: a command's refresh is in progress while update_task is
\* started and waiting for its next iteration.
C8_Witness ==
    /\ sched = "idle"
    /\ \E r \in running : r.caller = "view"

(***************************************************************************)
(* Properties of the paginated listing.                                    *)
(***************************************************************************)
\* The least k with k * d >= n.
Ceil(n, d) == CHOOSE k \in 0..n : k * d >= n /\ (k = 0 \/ (k - 1) * d < n)

\* C5: whenever a task comes to send its enriched embed to the screen
\* (message.edit after update_owners), the page and the render it was
\* started for are still the current ones.
C5_LatePatchDiscarded ==
    [][\A h \in Handlers :
          (tasks[h].pc # "patch" /\ tasks'[h].pc = "patch") =>
              (tasks'[h].page = page' /\ tasks'[h].gen = generation')]_vars

\* C9: once the listing is on screen, the page count is
\* ceil(guilds / guilds_per_page) and 0 <= page < page count, for every
\* number of guilds, zero included.
C9_PageWithinPageCount ==
    tasks[0].pc # "send" =>
        /\ total_pages = Ceil(total_guilds, guilds_per_page)
        /\ 0 <= page
        /\ page < total_pages

\* C10: the view starts on page 0; a press of Next adds exactly one to the
\* page below the last page and changes nothing on the last page; a press
\* of Previous subtracts exactly one above page 0 and changes nothing on
\* page 0; with 23 guilds there are 3 pages and no press leads past page 2.
C10_NavigationClamps ==
    /\ last_click.button = None => page = 0
    /\ last_click.button = "next" =>
          page = IF last_click.from < total_pages - 1
                 THEN last_click.from + 1 ELSE last_click.from
    /\ last_click.button = "previous" =>
          page = IF last_click.from > 0
                 THEN last_click.from - 1 ELSE last_click.from
    /\ last_click.button = "refresh" => page = last_click.from
    /\ total_guilds = 23 => (total_pages = 3 /\ page <= 2)

\* C10 witness: 23 guilds, two presses of Next rendered pages 1 and 2, and
\* a third press of Next found page 2 and left it.
C10_Witness ==
    /\ total_guilds = 23
    /\ generation = 2
    /\ last_click = [button |-> "next", from |-> 2]
    /\ page = 2

\* The fetch_member calls for guild g that have returned or raised: those
\* made, less those some task is waiting in.
Completed(g) ==
    (IF g \in DOMAIN lookups THEN lookups[g] ELSE 0)
        - Cardinality({h \in Handlers : tasks[h].pc = "fetching" /\ tasks[h].idx + 1 = g})

\* C14: within one /servers message, no step calls fetch_member for a guild
\* for which a call of fetch_member has already returned or raised,
\* whichever page is rendered again and whatever that first call gave.
C14_LookupOncePerItem ==
    [][\A g \in DOMAIN lookups' :
          (g \notin DOMAIN lookups \/ lookups'[g] > lookups[g]) => Completed(g) = 0]_vars

\* C20: while a task is still waiting for the owner of one guild of the
\* page on screen, the fields of the guilds it has already looked up show
\* their owners.
C20_PatchedAsLookedUp ==
    \A h \in Handlers :
        (tasks[h].pc = "fetching" /\ shown.gen = tasks[h].gen /\ shown.page = tasks[h].page) =>
            shown.owners >= tasks[h].idx - PageStart(tasks[h].page)

\* C13: once the view has timed out it stays timed out, and every later
\* press of Previous, Next or Refresh leaves the page and the embed on
\* screen as they are, starts no render, and is answered with a
\* "session expired" message.
C13_ExpiredIsTerminal ==
    /\ [][~view_store.listening => ~view_store'.listening]_vars
    /\ [][(~view_store.listening /\ view_store'.undelivered # view_store.undelivered) =>
            /\ page' = page /\ shown' = shown /\ generation' = generation
            /\ view_store'.answer = "session expired"]_vars

\* Every field of an embed shows an owner, none "Owner: Loading...".
Settled(e) == e.owners = PageEnd(e.page) - PageStart(e.page)

\* C19: whenever the latest render is on screen, then in the end either
\* that render is on screen with every field showing an owner (a name, or
\* the bare id when the lookup failed), or a button has started a newer
\* render.
C19_EnrichmentSettles ==
    \A g \in 0..MaxRenders :
        (shown.gen = g /\ generation = g) ~>
            ((shown.gen = g /\ Settled(shown)) \/ generation > g)

\* C19 witness: the first page of 11 guilds was rendered again by a
\* button; the page on screen is that latest render, all its fields show an owner, and one of them the bare
\* id, because fetch_member raised.
C19_Witness ==
    /\ shown.gen = generation /\ generation = 1
    /\ total_guilds = 11
    /\ Settled(shown)
    /\ shown.unknown = {2}
    /\ \A h \in Handlers : tasks[h].pc \in {"idle", "done"}

====
